---- MODULE Spec2Model ----
(***************************************************************************)
(* Model of the matter session library: the Request Client                 *)
(* (src/src/utils/request.js) and the Session Facade (src/src/index.js).   *)
(* The Token Manager (utils/token) and the Environment Storage             *)
(* (utils/envStorage) are imported by the sources but are not part of      *)
(* them; they are modelled from their contract in spec.md, 4.1 and 4.2.    *)
(* The earlier Matter class of src/src/matter.js, which keeps its token in *)
(* window.localStorage, is modelled beside them.                           *)
(***************************************************************************)
EXTENDS Integers, Sequences, FiniteSets, TLC

VARIABLES tokenStr, userData, inflight, ev, legacy

vars == <<tokenStr, userData, inflight, ev, legacy>>

(***************************************************************************)
(* Bounds                                                                  *)
(***************************************************************************)
\* largest number of network tasks outstanding at the same time
MaxInFlight == 1
\* largest number of logins outstanding at the same time when logins race
MaxLogins == 2

(***************************************************************************)
(* JavaScript values.  Every value is a record tagged with its type, so    *)
(* that values of different types can be compared.                         *)
(***************************************************************************)
Null == [t |-> "null"]
Undefined == [t |-> "undefined"]
Str(s) == [t |-> "string", s |-> s]
Num(n) == [t |-> "number", n |-> n]
Obj(f) == [t |-> "object", p |-> f]
Arr(e) == [t |-> "array", e |-> e]
Bool(b) == [t |-> "boolean", b |-> b]
\* a string given by its lexemes, as a response body arrives from the wire
Text(lex) == [t |-> "string", lex |-> lex]
\* the TypeError raised by a property read on null or undefined
TypeError == [t |-> "error", name |-> "TypeError"]
EmptyObj == Obj(<<>>)

IsText(v) == v.t = "string" /\ "lex" \in DOMAIN v

\* JavaScript truthiness, as the conditions `if (x)`, `!x`, `a || b` use it
Truthy(v) ==
  CASE v.t \in {"null", "undefined"} -> FALSE
    [] v.t = "string" -> IF IsText(v) THEN v.lex # <<>> ELSE v.s # ""
    [] v.t = "number" -> v.n # 0
    [] v.t = "boolean" -> v.b
    [] OTHER -> TRUE

\* a property read `v.k` throws on null and undefined
Nullish(v) == v.t \in {"null", "undefined"}

\* the property read `v.k` on a value that is not nullish
Get(v, k) == IF v.t = "object" /\ k \in DOMAIN v.p THEN v.p[k] ELSE Undefined

\* lodash has(v, k): v is an object with own property k
Has(v, k) == v.t = "object" /\ k \in DOMAIN v.p

\* lodash isObject / isString
isObject(v) == v.t \in {"object", "array"}
isString(v) == v.t = "string"
isArray(v) == v.t = "array"

\* the loose comparison `v == n` of a value with a number literal
LooseEq(v, n, asString) ==
  \/ v.t = "number" /\ v.n = n
  \/ v.t = "string" /\ ~IsText(v) /\ v.s = asString

(***************************************************************************)
(* JSON.parse over lexemes.  A lexeme is a punctuation mark, a string      *)
(* literal, a number literal or a bare word.                               *)
(***************************************************************************)
P(c) == [k |-> "punct", s |-> c, n |-> 0]
S(s) == [k |-> "str", s |-> s, n |-> 0]
N(n) == [k |-> "num", s |-> "", n |-> n]
W(w) == [k |-> "word", s |-> w, n |-> 0]

Fail == [ok |-> FALSE, val |-> Undefined, pos |-> 0]
Done(v, i) == [ok |-> TRUE, val |-> v, pos |-> i]

RECURSIVE ParseValue(_, _)
RECURSIVE ParseMembers(_, _, _)
RECURSIVE ParseElements(_, _, _)

\* members of an object after the opening brace: "k" : value {, "k" : value} }
ParseMembers(lex, i, acc) ==
  IF i + 1 > Len(lex) \/ lex[i].k # "str" \/ lex[i + 1] # P(":")
  THEN Fail
  ELSE LET r == ParseValue(lex, i + 2) IN
       IF ~r.ok \/ r.pos > Len(lex) THEN Fail
       ELSE LET acc2 == (lex[i].s :> r.val) @@ acc IN
            IF lex[r.pos] = P("}") THEN Done(Obj(acc2), r.pos + 1)
            ELSE IF lex[r.pos] = P(",") THEN ParseMembers(lex, r.pos + 1, acc2)
            ELSE Fail

\* elements of an array after the opening bracket
ParseElements(lex, i, acc) ==
  LET r == ParseValue(lex, i) IN
  IF ~r.ok \/ r.pos > Len(lex) THEN Fail
  ELSE IF lex[r.pos] = P("]") THEN Done(Arr(Append(acc, r.val)), r.pos + 1)
  ELSE IF lex[r.pos] = P(",") THEN ParseElements(lex, r.pos + 1, Append(acc, r.val))
  ELSE Fail

\* one JSON value starting at lexeme i
ParseValue(lex, i) ==
  IF i > Len(lex) THEN Fail
  ELSE CASE lex[i].k = "num" -> Done(Num(lex[i].n), i + 1)
         [] lex[i].k = "str" -> Done(Str(lex[i].s), i + 1)
         [] lex[i] = W("null") -> Done(Null, i + 1)
         [] lex[i] = P("{") ->
              IF i + 1 <= Len(lex) /\ lex[i + 1] = P("}")
              THEN Done(EmptyObj, i + 2)
              ELSE ParseMembers(lex, i + 1, <<>>)
         [] lex[i] = P("[") ->
              IF i + 1 <= Len(lex) /\ lex[i + 1] = P("]")
              THEN Done(Arr(<<>>), i + 2)
              ELSE ParseElements(lex, i + 1, <<>>)
         [] OTHER -> Fail

RECURSIVE ToStringLex(_)
RECURSIVE JoinLex(_, _)

\* Array.prototype.join: the elements' strings separated by commas, a null
\* or undefined element giving the empty string
JoinLex(e, i) ==
  IF i > Len(e) THEN <<>>
  ELSE (IF i > 1 THEN <<P(",")>> ELSE <<>>)
       \o (IF Nullish(e[i]) THEN <<>> ELSE ToStringLex(e[i]))
       \o JoinLex(e, i + 1)

\* the string JSON.parse sees: its argument converted with ToString
ToStringLex(v) ==
  CASE IsText(v) -> v.lex
    [] v.t = "string" -> <<W(v.s)>>
    [] v.t = "number" -> <<N(v.n)>>
    [] v.t = "null" -> <<W("null")>>
    [] v.t = "undefined" -> <<W("undefined")>>
    [] v.t = "array" -> JoinLex(v.e, 1)
    [] OTHER -> <<P("["), W("object"), W("Object"), P("]")>>

\* JSON.parse(v): ok is FALSE when it throws a SyntaxError
JSONParse(v) ==
  LET lex == ToStringLex(v)
      r == ParseValue(lex, 1)
  IN IF r.ok /\ r.pos = Len(lex) + 1 THEN r ELSE Fail

(***************************************************************************)
(* Token Manager and Environment Storage (contract of spec.md 4.1, 4.2).   *)
(* tokenStr is the value stored under the token key, userData the value    *)
(* stored under the account key; Null stands for an absent key.            *)
(***************************************************************************)
\* claims carried by the token strings of the model
Decode(s) ==
  CASE s = "T1" -> Obj([username |-> Str("u1"),
                        groups |-> Arr(<<Obj([name |-> Str("admins")])>>)])
    [] s = "T2" -> Obj([username |-> Str("u2")])
    [] s = "TL" -> Obj([un |-> Str("lu"), n |-> Str("Legacy User")])
    [] OTHER -> Null

\* token.string = value
TokenSet(value) == value

\* token.data: the decoded claims, null without a token or when decoding fails
TokenData(tok) == IF Truthy(tok) /\ tok.t = "string" THEN Decode(tok.s) ELSE Null

\* token.delete()
TokenDelete == Null

\* storage.setItem(key, value) followed by getItem(key)
StorageSet(value) == IF value.t = "undefined" THEN Null ELSE value

\* storage.removeItem(key) followed by getItem(key)
StorageRemove == Null

(***************************************************************************)
(* Request Client, src/src/utils/request.js                                *)
(***************************************************************************)
\* superagent.<verb>(endpoint): a request without headers
superagent(verb, endpoint) ==
  [verb |-> verb, url |-> endpoint, headers |-> <<>>,
   query |-> Undefined, body |-> Undefined]

\* variant: the header is set whenever the token is not null
addAuthHeaderNullTest(req, tok) ==
  IF tok.t # "null"
  THEN [req EXCEPT !.headers = ("Authorization" :> Str("Bearer " \o tok.s)) @@ @]
  ELSE req

\* addAuthHeader(req), reading token.string
addAuthHeader(req, tok) ==
  IF Truthy(tok)
  THEN [req EXCEPT !.headers = ("Authorization" :> Str("Bearer " \o tok.s)) @@ @]
  ELSE req

\* request.get(endpoint, queryData)
request_get(endpoint, queryData, tok) ==
  LET req == superagent("GET", endpoint) IN
  addAuthHeader(IF Truthy(queryData) THEN [req EXCEPT !.query = queryData] ELSE req,
                tok)

\* request.post(endpoint, data)
request_post(endpoint, data, tok) ==
  addAuthHeader([superagent("POST", endpoint) EXCEPT !.body = data], tok)

\* request.put(endpoint, data)
request_put(endpoint, data, tok) ==
  addAuthHeader([superagent("PUT", endpoint) EXCEPT !.body = data], tok)

\* request.del(endpoint, data): built with superagent.put
request_del(endpoint, data, tok) ==
  addAuthHeader([superagent("PUT", endpoint) EXCEPT !.body = data], tok)

\* settlement of a promise; "pending" is a promise that is never settled
Resolved(v) == [st |-> "resolved", val |-> v]
Rejected(v) == [st |-> "rejected", val |-> v]
Pending == [st |-> "pending", val |-> Undefined]

\* variant: a body that does not parse rejects the promise
handleResponseParseRejects(errorRes, res) ==
  IF Truthy(errorRes)
  THEN LET response == Get(errorRes, "response")
           error == IF Truthy(response) /\ Truthy(Get(response, "body"))
                    THEN Get(Get(response, "body"), "error")
                    ELSE errorRes
       IN IF Nullish(error) THEN Pending
          ELSE IF Truthy(Get(error, "message"))
               THEN Rejected(Get(error, "message"))
               ELSE Rejected(error)
  ELSE LET parsed == JSONParse(Get(res, "body")) IN
       IF parsed.ok THEN Resolved(parsed.val) ELSE Rejected(Get(res, "body"))

\* handleResponse(req): the callback given to req.end(errorRes, res).  The
\* callback runs outside the promise executor, so a TypeError it raises
\* (error.message on an undefined error) leaves the promise pending.
handleResponse(errorRes, res) ==
  IF Truthy(errorRes)
  THEN LET response == Get(errorRes, "response")
           error == IF Truthy(response) /\ Truthy(Get(response, "body"))
                    THEN Get(Get(response, "body"), "error")
                    ELSE errorRes
       IN IF Nullish(error) THEN Pending
          ELSE IF Truthy(Get(error, "message"))
               THEN Rejected(Get(error, "message"))
               ELSE Rejected(error)
  ELSE LET parsed == JSONParse(Get(res, "body")) IN
       IF parsed.ok THEN Resolved(parsed.val) ELSE Resolved(Get(res, "body"))

(***************************************************************************)
(* Session Facade, src/src/index.js.  Every operation is an operator from  *)
(* its argument and the stored token and account to its effect: the new    *)
(* token and account, the settlement of the returned promise ("waiting"    *)
(* while a network task is outstanding, "threw" for a synchronous          *)
(* exception), the requests it issued and the tasks left outstanding.      *)
(***************************************************************************)
Eff(tok, user, settle, sent, next) ==
  [tok |-> tok, user |-> user, st |-> settle.st, val |-> settle.val,
   sent |-> sent, next |-> next]

Waiting == [st |-> "waiting", val |-> Undefined]
Threw(e) == [st |-> "threw", val |-> e]

\* the rejection values {message, status} and {message}
Failure(message, status) == Obj([message |-> Str(message), status |-> Str(status)])
FailureMsg(message) == Obj([message |-> Str(message)])

\* get isLoggedIn
isLoggedIn(tok) == Truthy(tok)

\* get currentUser
currentUser(user) == IF Truthy(user) THEN user ELSE Null

\* get urls: update and upload exist only when the claims carry a username
urls(tok) ==
  LET data == TokenData(tok) IN
  IF Truthy(tok) /\ Truthy(data) /\ Truthy(Get(data, "username"))
  THEN [update |-> Str("/account/" \o Get(data, "username").s),
        upload |-> Str("/account/" \o Get(data, "username").s \o "/upload"),
        recover |-> Str("/recover"), changePassword |-> Undefined]
  ELSE [update |-> Undefined, upload |-> Undefined,
        recover |-> Str("/recover"), changePassword |-> Undefined]

\* variant: only a username counts as an identifier
signupUsernameOnly(signupData, tok, user) ==
  IF ~Truthy(signupData) \/ (~isObject(signupData) /\ ~isString(signupData))
  THEN Eff(tok, user, Rejected(Failure("Signup data is required to signup.", "NULL_DATA")), <<>>, <<>>)
  ELSE IF isObject(signupData)
  THEN IF ~Truthy(Get(signupData, "username"))
       THEN Eff(tok, user, Rejected(Failure("Email or Username required to signup.", "ID_REQUIRED")), <<>>, <<>>)
       ELSE IF ~Truthy(Get(signupData, "password"))
       THEN Eff(tok, user, Rejected(Failure("Password is required to signup.", "PASS_REQUIRED")), <<>>, <<>>)
       ELSE Eff(tok, user, Waiting,
                <<request_post(Str("/signup"), signupData, tok)>>, <<"signup">>)
  ELSE Eff(tok, user, Waiting, <<>>, <<"providerSignup">>)

\* signup(signupData)
signup(signupData, tok, user) ==
  IF ~Truthy(signupData) \/ (~isObject(signupData) /\ ~isString(signupData))
  THEN Eff(tok, user, Rejected(Failure("Signup data is required to signup.", "NULL_DATA")), <<>>, <<>>)
  ELSE IF isObject(signupData)
  THEN IF ~Truthy(Get(signupData, "username")) /\ ~Truthy(Get(signupData, "email"))
       THEN Eff(tok, user, Rejected(Failure("Email or Username required to signup.", "ID_REQUIRED")), <<>>, <<>>)
       ELSE IF ~Truthy(Get(signupData, "password"))
       THEN Eff(tok, user, Rejected(Failure("Password is required to signup.", "PASS_REQUIRED")), <<>>, <<>>)
       ELSE Eff(tok, user, Waiting,
                <<request_post(Str("/signup"), signupData, tok)>>, <<"signup">>)
  ELSE Eff(tok, user, Waiting, <<>>, <<"providerSignup">>)

\* variant: the whole response is passed on
signupSettleWholeResponse(hr) == hr

\* signup: the handlers of the request promise
signupSettle(hr) ==
  IF hr.st = "resolved"
  THEN IF Has(hr.val, "account") THEN Resolved(Get(hr.val, "account")) ELSE hr
  ELSE hr

\* variant: an empty password passes the validation
loginEmptyPassword(loginData, tok, user) ==
  IF ~Truthy(loginData) \/ (~isObject(loginData) /\ ~isString(loginData))
  THEN Eff(tok, user, Rejected(Failure("Login data is required to login.", "DATA_REQUIRED")), <<>>, <<>>)
  ELSE IF isObject(loginData)
  THEN IF ~Truthy(Get(loginData, "username")) /\ ~Truthy(Get(loginData, "email"))
       THEN Eff(tok, user, Rejected(Failure("Email or Username required to login.", "ID_REQUIRED")), <<>>, <<>>)
       ELSE IF ~Has(loginData, "password")
       THEN Eff(tok, user, Rejected(Failure("Password is required to login.", "PASS_REQUIRED")), <<>>, <<>>)
       ELSE Eff(tok, user, Waiting,
                <<request_put(Str("/login"), loginData, tok)>>, <<"login">>)
  ELSE Eff(tok, user, Waiting, <<>>, <<"providerLogin">>)

\* login(loginData)
login(loginData, tok, user) ==
  IF ~Truthy(loginData) \/ (~isObject(loginData) /\ ~isString(loginData))
  THEN Eff(tok, user, Rejected(Failure("Login data is required to login.", "DATA_REQUIRED")), <<>>, <<>>)
  ELSE IF isObject(loginData)
  THEN IF ~Truthy(Get(loginData, "username")) /\ ~Truthy(Get(loginData, "email"))
       THEN Eff(tok, user, Rejected(Failure("Email or Username required to login.", "ID_REQUIRED")), <<>>, <<>>)
       ELSE IF ~Truthy(Get(loginData, "password")) \/ Get(loginData, "password") = Str("")
       THEN Eff(tok, user, Rejected(Failure("Password is required to login.", "PASS_REQUIRED")), <<>>, <<>>)
       ELSE Eff(tok, user, Waiting,
                <<request_put(Str("/login"), loginData, tok)>>, <<"login">>)
  ELSE Eff(tok, user, Waiting, <<>>, <<"providerLogin">>)

\* variant: a rejected login ends the session
loginCatchClears(errRes, tok, user) ==
  IF Nullish(errRes) THEN Eff(TokenDelete, StorageRemove, Rejected(TypeError), <<>>, <<>>)
  ELSE IF LooseEq(Get(errRes, "status"), 409, "409") \/ LooseEq(Get(errRes, "status"), 400, "400")
  THEN IF Nullish(Get(errRes, "response"))
       THEN Eff(TokenDelete, StorageRemove, Rejected(TypeError), <<>>, <<>>)
       ELSE Eff(TokenDelete, StorageRemove,
                Rejected(Get(Get(errRes, "response"), "text")), <<>>, <<>>)
  ELSE Eff(TokenDelete, StorageRemove, Rejected(errRes), <<>>, <<>>)

\* login: the catch handler
loginCatch(errRes, tok, user) ==
  IF Nullish(errRes) THEN Eff(tok, user, Rejected(TypeError), <<>>, <<>>)
  ELSE IF LooseEq(Get(errRes, "status"), 409, "409") \/ LooseEq(Get(errRes, "status"), 400, "400")
  THEN IF Nullish(Get(errRes, "response"))
       THEN Eff(tok, user, Rejected(TypeError), <<>>, <<>>)
       ELSE Eff(tok, user, Rejected(Get(Get(errRes, "response"), "text")), <<>>, <<>>)
  ELSE Eff(tok, user, Rejected(errRes), <<>>, <<>>)

\* variant: the claims of the token are used as decoded, whatever their shape
loginAccountAsDecoded(response, tok) ==
  LET data == TokenData(tok) IN
  IF Has(response, "account") THEN Get(response, "account")
  ELSE IF Truthy(data) THEN data
  ELSE Obj([token |-> tok])

\* login: the account taken from the response or from the token
loginAccount(response, tok) ==
  LET data == TokenData(tok) IN
  IF Has(response, "account") THEN Get(response, "account")
  ELSE IF Truthy(data)
  THEN IF Truthy(Get(data, "un"))
       THEN Obj([username |-> Get(data, "un"),
                 name |-> IF Truthy(Get(data, "n")) THEN Get(data, "n") ELSE Null,
                 authrocketId |-> IF Truthy(Get(data, "uid")) THEN Get(data, "uid") ELSE Null])
       ELSE data
  ELSE Obj([token |-> tok])

\* variant: the token of the response is stored only when none is held
loginThenKeepToken(response, tok, user) ==
  IF /\ Has(response, "data") /\ Has(Get(response, "data"), "status")
     /\ LooseEq(Get(Get(response, "data"), "status"), 409, "409")
  THEN loginCatch(Get(response, "data"), tok, user)
  ELSE LET tok2 == IF Has(response, "token") /\ ~Truthy(tok)
                   THEN TokenSet(Get(response, "token")) ELSE tok
           userAccount == loginAccount(response, tok2)
       IN Eff(tok2, StorageSet(userAccount), Resolved(userAccount), <<>>, <<>>)

\* login: the then handler
loginThen(response, tok, user) ==
  IF /\ Has(response, "data") /\ Has(Get(response, "data"), "status")
     /\ LooseEq(Get(Get(response, "data"), "status"), 409, "409")
  THEN loginCatch(Get(response, "data"), tok, user)
  ELSE LET tok2 == IF Has(response, "token") THEN TokenSet(Get(response, "token")) ELSE tok
           userAccount == loginAccount(response, tok2)
       IN Eff(tok2, StorageSet(userAccount), Resolved(userAccount), <<>>, <<>>)

\* login: the handlers of the request promise
loginSettle(hr, tok, user) ==
  IF hr.st = "resolved" THEN loginThen(hr.val, tok, user)
  ELSE IF hr.st = "rejected" THEN loginCatch(hr.val, tok, user)
  ELSE Eff(tok, user, Pending, <<>>, <<>>)

\* variant: the logout request is issued without looking at the session
logoutUnguarded(tok, user) ==
  Eff(tok, user, Waiting, <<request_put(Str("/logout"), Undefined, tok)>>, <<"logout">>)

\* logout()
logout(tok, user) ==
  IF ~isLoggedIn(tok)
  THEN Eff(tok, user, Rejected(Failure("No logged in account to log out.", "NULL_ACCOUNT")), <<>>, <<>>)
  ELSE Eff(tok, user, Waiting, <<request_put(Str("/logout"), Undefined, tok)>>, <<"logout">>)

\* logout: the handlers of the request promise
logoutSettle(hr, tok, user) ==
  IF hr.st = "resolved" THEN Eff(TokenDelete, StorageSet(Null), hr, <<>>, <<>>)
  ELSE IF hr.st = "rejected" THEN Eff(TokenDelete, StorageRemove, hr, <<>>, <<>>)
  ELSE Eff(tok, user, Pending, <<>>, <<>>)

\* variant: the cached account is not looked at
getCurrentUserNoCache(tok, user) ==
  IF ~isLoggedIn(tok)
  THEN Eff(tok, user, Resolved(Null), <<>>, <<>>)
  ELSE Eff(tok, user, Waiting, <<request_get(Str("/user"), Undefined, tok)>>, <<"getCurrentUser">>)

\* getCurrentUser()
getCurrentUser(tok, user) ==
  IF Truthy(currentUser(user))
  THEN Eff(tok, user, Resolved(currentUser(user)), <<>>, <<>>)
  ELSE IF ~isLoggedIn(tok)
  THEN Eff(tok, user, Resolved(Null), <<>>, <<>>)
  ELSE Eff(tok, user, Waiting, <<request_get(Str("/user"), Undefined, tok)>>, <<"getCurrentUser">>)

\* variant: a 401 resolves with null and the token is kept
getCurrentUserSettleKeepsToken(hr, tok, user) ==
  IF hr.st = "resolved" THEN Eff(tok, StorageSet(hr.val), hr, <<>>, <<>>)
  ELSE IF hr.st = "rejected"
  THEN IF LooseEq(Get(hr.val, "status"), 401, "401")
       THEN Eff(tok, user, Resolved(Null), <<>>, <<>>)
       ELSE Eff(tok, user, hr, <<>>, <<>>)
  ELSE Eff(tok, user, Pending, <<>>, <<>>)

\* getCurrentUser: the handlers of the request promise
getCurrentUserSettle(hr, tok, user) ==
  IF hr.st = "resolved" THEN Eff(tok, StorageSet(hr.val), hr, <<>>, <<>>)
  ELSE IF hr.st = "rejected"
  THEN IF LooseEq(Get(hr.val, "status"), 401, "401")
       THEN Eff(TokenDelete, user, Resolved(Null), <<>>, <<>>)
       ELSE Eff(tok, user, hr, <<>>, <<>>)
  ELSE Eff(tok, user, Pending, <<>>, <<>>)

\* updateAccount(updateData); task names the outstanding network task
updateAccount(updateData, tok, user, task) ==
  IF ~isLoggedIn(tok)
  THEN Eff(tok, user, Rejected(FailureMsg("Must be logged in to update account.")), <<>>, <<>>)
  ELSE IF ~Truthy(updateData)
  THEN Eff(tok, user, Rejected(Failure("Data required to update account.", "NULL_DATA")), <<>>, <<>>)
  ELSE Eff(tok, user, Waiting, <<request_put(urls(tok).update, updateData, tok)>>, <<task>>)

\* updateAccount: the handlers of the request promise
updateAccountSettle(hr, tok, user) ==
  IF hr.st = "resolved" THEN Eff(tok, StorageSet(hr.val), hr, <<>>, <<>>)
  ELSE IF hr.st = "rejected" THEN Eff(tok, user, hr, <<>>, <<>>)
  ELSE Eff(tok, user, Pending, <<>>, <<>>)

\* uploadImage(fileData): the read of token.data.username throws when the
\* token carries no claims
uploadImage(fileData, tok, user, task) ==
  IF ~isLoggedIn(tok)
  THEN Eff(tok, user, Rejected(FailureMsg("Must be logged in to upload image.")), <<>>, <<>>)
  ELSE IF ~Truthy(fileData)
  THEN Eff(tok, user, Rejected(Failure("Data required to update profile.", "NULL_DATA")), <<>>, <<>>)
  ELSE IF Nullish(TokenData(tok))
  THEN Eff(tok, user, Threw(TypeError), <<>>, <<>>)
  ELSE Eff(tok, user, Waiting, <<request_put(urls(tok).upload, fileData, tok)>>, <<task>>)

\* uploadImage: the handlers of the request promise
uploadImageSettle(hr, tok, user) ==
  IF hr.st = "resolved" THEN Eff(tok, StorageSet(hr.val), hr, <<>>, <<>>)
  ELSE IF hr.st = "rejected" THEN Eff(tok, user, hr, <<>>, <<>>)
  ELSE Eff(tok, user, Pending, <<>>, <<>>)

\* uploadAccountImage(fileData)
uploadAccountImage(fileData, tok, user) ==
  uploadImage(fileData, tok, user, "uploadAccountImage.upload")

\* uploadAccountImage: the then handler chained on uploadImage
uploadAccountImageThen(up) ==
  IF up.st = "resolved"
  THEN updateAccount(Obj([image |-> Obj([url |-> up.val])]), up.tok, up.user,
                     "uploadAccountImage.update")
  ELSE up

\* changePassword(newPassword)
changePassword(newPassword, tok, user) ==
  IF ~isLoggedIn(tok)
  THEN Eff(tok, user, Rejected(FailureMsg("Must be logged in to change password.")), <<>>, <<>>)
  ELSE Eff(tok, user, Waiting,
           <<request_put(urls(tok).changePassword, newPassword, tok)>>, <<"changePassword">>)

\* the strings of the model that contain '@'
EmailLike == {"a@b"}

\* recoverAccount(accountData)
recoverAccount(accountData, tok, user) ==
  IF ~Truthy(accountData) \/ (~isString(accountData) /\ ~isObject(accountData))
  THEN Eff(tok, user, Rejected(FailureMsg("Account data is required to recover an account.")), <<>>, <<>>)
  ELSE LET account == IF isString(accountData)
                      THEN IF accountData.s \in EmailLike
                           THEN Obj([email |-> accountData])
                           ELSE Obj([username |-> accountData])
                      ELSE accountData
       IN Eff(tok, user, Waiting,
              <<request_post(urls(tok).recover, account, tok)>>, <<"recoverAccount">>)

\* changePassword, recoverAccount and a direct use of the Request Client:
\* the outcome of the request promise is passed on
passSettle(hr, tok, user) == Eff(tok, user, hr, <<>>, <<>>)

\* checkGroups.split(','), on the strings the model passes to the group checks
split(s) ==
  CASE s = "admins,users" -> <<Str("admins"), Str("users")>>
    [] s = "admins,admins" -> <<Str("admins"), Str("admins")>>
    [] OTHER -> <<Str(s)>>

\* lodash any(collection, predicate)
any(collection, predicate(_)) == \E i \in DOMAIN collection : predicate(collection[i])

\* lodash every(collection, path): a predicate that is not a function is the
\* shorthand of a property, the element passes when its property `path` is
\* truthy; isInGroups passes the value true, the property named "true"
every(collection, path) ==
  \A i \in DOMAIN collection : Truthy(Get(collection[i], path))

RECURSIVE isInGroup(_, _), isInGroups(_, _)

\* isInGroup(checkGroups): a boolean, or the TypeError thrown by the read of
\* token.data.groups when the token carries no claims
isInGroup(checkGroups, tok) ==
  IF ~isLoggedIn(tok) THEN Bool(FALSE)
  ELSE IF ~Truthy(checkGroups) THEN Bool(FALSE)
  ELSE IF isString(checkGroups)
  THEN LET groupName == checkGroups
           groupsArray == split(groupName.s)
       IN IF Len(groupsArray) > 1
          THEN isInGroups(Arr(groupsArray), tok)
          ELSE IF Nullish(TokenData(tok)) THEN TypeError
          ELSE LET groups == IF Truthy(Get(TokenData(tok), "groups"))
                             THEN Get(TokenData(tok), "groups").e ELSE <<>>
                   sameName(group) == groupName = Get(group, "name")
               IN Bool(any(groups, sameName))
  ELSE IF isArray(checkGroups) THEN isInGroups(checkGroups, tok)
  ELSE Bool(FALSE)

\* isInGroups(checkGroups): a boolean, or the TypeError thrown by isInGroup
isInGroups(checkGroups, tok) ==
  IF ~isLoggedIn(tok) THEN Bool(FALSE)
  ELSE IF ~Truthy(checkGroups) THEN Bool(FALSE)
  ELSE IF isArray(checkGroups)
  THEN LET mapped == [i \in DOMAIN checkGroups.e |->
                        LET group == checkGroups.e[i] IN
                        IF isString(group) THEN isInGroup(group, tok)
                        ELSE IF Has(group, "name") THEN isInGroup(Get(group, "name"), tok)
                        ELSE Bool(FALSE)]
       IN IF \E i \in DOMAIN mapped : mapped[i] = TypeError THEN TypeError
          ELSE Bool(every(mapped, "true"))
  ELSE IF isString(checkGroups)
  THEN LET groupsArray == split(checkGroups.s) IN
       IF Len(groupsArray) > 1 THEN isInGroups(Arr(groupsArray), tok)
       ELSE isInGroup(groupsArray[1], tok)
  ELSE Bool(FALSE)

\* the outcome of a call that returns a value instead of a promise
Returned(v) == IF v = TypeError THEN Threw(v) ELSE [st |-> "returned", val |-> v]

(***************************************************************************)
(* Inputs of the operations and outcomes of the transport                  *)
(***************************************************************************)
AcctU == Obj([username |-> Str("u")])
AcctV == Obj([username |-> Str("v")])

\* arguments of signup and login
Creds ==
  { Undefined, Num(5), Str("google"), EmptyObj,
    Obj([username |-> Str("u")]),
    Obj([username |-> Str("u"), password |-> Str("")]),
    Obj([email |-> Str("a@b"), password |-> Str("p")]),
    Obj([username |-> Str("u"), password |-> Str("p")]) }

\* arguments of updateAccount, uploadImage, uploadAccountImage, request.get
Payloads == { Undefined, Obj([name |-> Str("x")]) }

\* arguments of isInGroup
GroupArgs ==
  { Undefined, Num(5), Str("admins"), Str("users"), Str("admins,users"),
    Arr(<<Str("admins")>>) }

\* arguments of isInGroups
GroupLists ==
  { Undefined, Str("admins"), Arr(<<>>), Arr(<<Str("admins")>>),
    Arr(<<Obj([name |-> Str("admins")])>>), Arr(<<Str("admins"), EmptyObj>>) }

\* arguments of recoverAccount
RecoverArgs == { Undefined, Str("a@b"), Str("u") }

\* the text {"token":"T2","account":{"username":"v"}}
LoginText ==
  Text(<<P("{"), S("token"), P(":"), S("T2"), P(","), S("account"), P(":"),
         P("{"), S("username"), P(":"), S("v"), P("}"), P("}")>>)

\* response bodies of a successful call of /login; Null is the body of a
\* reply without content
LoginBodies ==
  { Obj([token |-> Str("T1"), account |-> AcctU]),
    LoginText,
    Obj([token |-> Str("TL")]),
    Obj([token |-> Str("bad")]),
    Obj([token |-> Str("")]),
    Obj([account |-> AcctU]),
    Obj([data |-> Obj([status |-> Num(409)])]),
    Null }

\* response bodies of the calls that answer with an account or an image url
AccountBodies == { AcctU, Text(<<W("ok")>>), Null }

\* response bodies of the other calls
OtherBodies == { Obj([token |-> Str("T1"), account |-> AcctU]), LoginText, Text(<<W("ok")>>) }

\* response bodies a successful transport call of a task can deliver
Bodies(task) ==
  CASE task = "login" -> LoginBodies
    [] task \in {"getCurrentUser", "updateAccount", "uploadImage",
                 "uploadAccountImage.upload", "uploadAccountImage.update"} -> AccountBodies
    [] OTHER -> OtherBodies

\* the error object the transport hands to the callback
TransportError(status, message, response) ==
  Obj([status |-> status, message |-> Str(message), response |-> response])

\* errors of a failed transport call
Errors ==
  { TransportError(Num(401), "Unauthorized",
      Obj([text |-> Str("denied"),
           body |-> Obj([error |-> Obj([message |-> Str("Not signed in"), status |-> Num(401)])])])),
    TransportError(Num(401), "Unauthorized",
      Obj([text |-> Str("denied"), body |-> Obj([error |-> Obj([status |-> Num(401)])])])),
    TransportError(Num(401), "Unauthorized",
      Obj([text |-> Str("denied"), body |-> EmptyObj])),
    TransportError(Num(409), "Conflict",
      Obj([text |-> Str("no account"), body |-> Null])),
    TransportError(Num(400), "",
      Obj([text |-> Str("bad request"), body |-> Null])),
    Obj([message |-> Str("Network Error")]) }

\* what the transport passes to the callback of req.end: (errorRes, res)
Outcomes(task) ==
  { [err |-> Null, res |-> Obj([body |-> b])] : b \in Bodies(task) }
  \cup { [err |-> e, res |-> Undefined] : e \in Errors }

\* outcomes of the Provider-Auth collaborator
ProviderOutcomes == { Resolved(AcctU), Rejected(Str("provider error")) }

(***************************************************************************)
(* The state machine                                                       *)
(***************************************************************************)
Tasks ==
  { "signup", "login", "logout", "getCurrentUser", "updateAccount",
    "uploadImage", "uploadAccountImage.upload", "uploadAccountImage.update",
    "changePassword", "recoverAccount", "request",
    "providerSignup", "providerLogin" }

RECURSIVE AddTasks(_, _)
AddTasks(f, next) ==
  IF next = <<>> THEN f
  ELSE AddTasks([f EXCEPT ![Head(next)] = @ + 1], Tail(next))

\* number of outstanding tasks
InFlightCount ==
  inflight["signup"] + inflight["login"] + inflight["logout"]
  + inflight["getCurrentUser"] + inflight["updateAccount"] + inflight["uploadImage"]
  + inflight["uploadAccountImage.upload"] + inflight["uploadAccountImage.update"]
  + inflight["changePassword"] + inflight["recoverAccount"] + inflight["request"]
  + inflight["providerSignup"] + inflight["providerLogin"]

\* ev describes the step just taken: the operation and its argument, the
\* requests it issued, the settlement of its promise, and for a completion
\* what the transport delivered (err, res) and how the request promise
\* settled (rst, rval); tok0 and user0 are the token and account before it
NoEvent ==
  [op |-> "none", step |-> "init", arg |-> Undefined, sent |-> <<>>,
   st |-> "none", val |-> Undefined, err |-> Undefined, res |-> Undefined,
   rst |-> "none", rval |-> Undefined, tok0 |-> Null, user0 |-> Null]

Init ==
  /\ tokenStr = Null
  /\ userData = Null
  /\ inflight = [x \in Tasks |-> 0]
  /\ ev = NoEvent
  /\ legacy = [item |-> Null, login |-> 0, logout |-> 0]

\* a call of an operation with argument arg and effect eff, while fewer
\* than bound tasks are outstanding
CallWithin(bound, op, arg, eff) ==
  /\ eff.next = <<>> \/ InFlightCount < bound
  /\ tokenStr' = eff.tok
  /\ userData' = eff.user
  /\ inflight' = AddTasks(inflight, eff.next)
  /\ ev' = [NoEvent EXCEPT !.op = op, !.step = "call", !.arg = arg,
                           !.sent = eff.sent, !.st = eff.st, !.val = eff.val,
                           !.tok0 = tokenStr, !.user0 = userData]
  /\ UNCHANGED legacy

Call(op, arg, eff) == CallWithin(MaxInFlight, op, arg, eff)

Signup == \E d \in Creds : Call("signup", d, signup(d, tokenStr, userData))

Login == \E d \in Creds : Call("login", d, login(d, tokenStr, userData))

Logout == Call("logout", Undefined, logout(tokenStr, userData))

GetCurrentUser == Call("getCurrentUser", Undefined, getCurrentUser(tokenStr, userData))

UpdateAccount ==
  \E d \in Payloads :
    Call("updateAccount", d, updateAccount(d, tokenStr, userData, "updateAccount"))

UploadImage ==
  \E d \in Payloads :
    Call("uploadImage", d, uploadImage(d, tokenStr, userData, "uploadImage"))

UploadAccountImage ==
  \E d \in Payloads :
    Call("uploadAccountImage", d, uploadAccountImage(d, tokenStr, userData))

ChangePassword ==
  \E d \in {Str("pw")} : Call("changePassword", d, changePassword(d, tokenStr, userData))

RecoverAccount ==
  \E d \in RecoverArgs : Call("recoverAccount", d, recoverAccount(d, tokenStr, userData))

IsInGroup ==
  \E x \in GroupArgs :
    Call("isInGroup", x, Eff(tokenStr, userData, Returned(isInGroup(x, tokenStr)), <<>>, <<>>))

IsInGroups ==
  \E x \in GroupLists :
    Call("isInGroups", x, Eff(tokenStr, userData, Returned(isInGroups(x, tokenStr)), <<>>, <<>>))

\* a direct use of the Request Client (matter.utils.request)
RequestGet ==
  \E d \in Payloads :
    Call("request.get", d,
         Eff(tokenStr, userData, Waiting, <<request_get(Str("/x"), d, tokenStr)>>, <<"request">>))

RequestPost ==
  \E d \in {Obj([name |-> Str("x")])} :
    Call("request.post", d,
         Eff(tokenStr, userData, Waiting, <<request_post(Str("/x"), d, tokenStr)>>, <<"request">>))

RequestPut ==
  \E d \in {Obj([name |-> Str("x")])} :
    Call("request.put", d,
         Eff(tokenStr, userData, Waiting, <<request_put(Str("/x"), d, tokenStr)>>, <<"request">>))

RequestDel ==
  \E d \in {Obj([name |-> Str("x")])} :
    Call("request.del", d,
         Eff(tokenStr, userData, Waiting, <<request_del(Str("/x"), d, tokenStr)>>, <<"request">>))

\* the handlers that run when the request promise of a task settles
Continue(task, hr, tok, user) ==
  CASE task = "signup" -> Eff(tok, user, signupSettle(hr), <<>>, <<>>)
    [] task = "login" -> loginSettle(hr, tok, user)
    [] task = "logout" -> logoutSettle(hr, tok, user)
    [] task = "getCurrentUser" -> getCurrentUserSettle(hr, tok, user)
    [] task \in {"updateAccount", "uploadAccountImage.update"} ->
         updateAccountSettle(hr, tok, user)
    [] task = "uploadImage" -> uploadImageSettle(hr, tok, user)
    [] task = "uploadAccountImage.upload" ->
         uploadAccountImageThen(uploadImageSettle(hr, tok, user))
    [] OTHER -> passSettle(hr, tok, user)

\* the transport completes an outstanding network task
Complete ==
  \E task \in Tasks \ {"providerSignup", "providerLogin"} : \E out \in Outcomes(task) :
    /\ inflight[task] > 0
    /\ LET hr == handleResponse(out.err, out.res)
           eff == Continue(task, hr, tokenStr, userData)
       IN /\ tokenStr' = eff.tok
          /\ userData' = eff.user
          /\ inflight' = AddTasks([inflight EXCEPT ![task] = @ - 1], eff.next)
          /\ ev' = [op |-> task, step |-> "complete", arg |-> Undefined,
                    sent |-> eff.sent, st |-> eff.st, val |-> eff.val,
                    err |-> out.err, res |-> out.res,
                    rst |-> hr.st, rval |-> hr.val,
                    tok0 |-> tokenStr, user0 |-> userData]
          /\ UNCHANGED legacy

\* the Provider-Auth collaborator settles; its outcome is passed on
ProviderComplete ==
  \E task \in {"providerSignup", "providerLogin"} : \E out \in ProviderOutcomes :
    /\ inflight[task] > 0
    /\ inflight' = [inflight EXCEPT ![task] = @ - 1]
    /\ ev' = [NoEvent EXCEPT !.op = task, !.step = "complete",
                             !.st = out.st, !.val = out.val,
                             !.tok0 = tokenStr, !.user0 = userData]
    /\ UNCHANGED <<tokenStr, userData, legacy>>

Next ==
  \/ Signup \/ Login \/ Logout \/ GetCurrentUser
  \/ UpdateAccount \/ UploadImage \/ UploadAccountImage
  \/ ChangePassword \/ RecoverAccount
  \/ IsInGroup \/ IsInGroups
  \/ RequestGet \/ RequestPost \/ RequestPut \/ RequestDel
  \/ Complete \/ ProviderComplete

Spec == Init /\ [][Next]_vars

\* callers that only log in, several logins outstanding at the same time
LoginRace ==
  \E d \in Creds : CallWithin(MaxLogins, "login", d, login(d, tokenStr, userData))

NextRace == LoginRace \/ Complete \/ ProviderComplete

SpecRace == Init /\ [][NextRace]_vars

(***************************************************************************)
(* The Matter class of src/src/matter.js.  legacy.item is the value of     *)
(* window.localStorage under the token name (Null when the key is absent), *)
(* legacy.login and legacy.logout count the outstanding requests.          *)
(***************************************************************************)
\* window.localStorage.setItem(key, value) followed by getItem(key): the
\* storage keeps the string of the value
localStorageSet(value) ==
  CASE value.t = "string" -> value
    [] value.t = "null" -> Str("null")
    [] value.t = "undefined" -> Str("undefined")
    [] OTHER -> Str("[object Object]")

\* getAuthToken(), in a browser
getAuthToken(item) == item

\* login of matter.js: the catch handler
legacy_loginCatch(errRes, item) ==
  [item |-> item, st |-> "rejected",
   val |-> IF LooseEq(Get(errRes, "status"), 409, "409")
           THEN Str("Account not found") ELSE errRes]

\* login of matter.js: the then handler; the read of response.data.token
\* throws when the response has no data, and the catch handler gets the error
legacy_loginThen(response, item) ==
  IF /\ Has(response, "data") /\ Has(Get(response, "data"), "status")
     /\ LooseEq(Get(Get(response, "data"), "status"), 409, "409")
  THEN legacy_loginCatch(Get(response, "data"), item)
  ELSE IF Nullish(response) \/ Nullish(Get(response, "data"))
  THEN legacy_loginCatch(TypeError, item)
  ELSE [item |-> IF item = Null
                 THEN localStorageSet(Get(Get(response, "data"), "token")) ELSE item,
        st |-> "resolved", val |-> Get(response, "data")]

\* login of matter.js: the handlers of the request promise
legacy_loginSettle(hr, item) ==
  IF hr.st = "resolved" THEN legacy_loginThen(hr.val, item)
  ELSE IF hr.st = "rejected" THEN legacy_loginCatch(hr.val, item)
  ELSE [item |-> item, st |-> "pending", val |-> Undefined]

\* logout of matter.js: the handlers of the request promise; the test
\* `typeof getItem(..) != null` is always true
legacy_logoutSettle(hr, item) ==
  IF hr.st = "resolved"
  THEN IF Nullish(hr.val)
       THEN [item |-> localStorageSet(Null), st |-> "rejected", val |-> TypeError]
       ELSE [item |-> localStorageSet(Null), st |-> "resolved", val |-> Get(hr.val, "body")]
  ELSE IF hr.st = "rejected" THEN [item |-> item, st |-> "rejected", val |-> hr.val]
  ELSE [item |-> item, st |-> "pending", val |-> Undefined]

\* arguments of the login of matter.js
LegacyCreds ==
  { Undefined, Obj([username |-> Str("u")]),
    Obj([username |-> Str("u"), password |-> Str("p")]) }

\* response bodies of the login and the logout of matter.js
LegacyLoginBodies ==
  { Obj([data |-> Obj([token |-> Str("T1")])]),
    Obj([data |-> Obj([token |-> Str("T2")])]),
    Obj([data |-> Obj([token |-> Str("TL")])]),
    Obj([data |-> Obj([status |-> Num(409)])]),
    Obj([token |-> Str("T1")]), Null }

LegacyLogoutBodies == { Obj([body |-> Str("bye")]), EmptyObj, Null }

LegacyOutcomes(bodies) ==
  { [err |-> Null, res |-> Obj([body |-> b])] : b \in bodies }
  \cup { [err |-> e, res |-> Undefined] : e \in Errors }

LegacyInFlight == legacy.login + legacy.logout

LegacyLogin ==
  \E d \in LegacyCreds :
    /\ LegacyInFlight < MaxInFlight
    /\ legacy' = [legacy EXCEPT !.login = @ + 1]
    /\ ev' = [NoEvent EXCEPT !.op = "matter.login", !.step = "call", !.arg = d,
                             !.sent = <<request_put(Str("/login"), d, tokenStr)>>,
                             !.st = "waiting", !.tok0 = legacy.item]
    /\ UNCHANGED <<tokenStr, userData, inflight>>

LegacyLogout ==
  /\ LegacyInFlight < MaxInFlight
  /\ legacy' = [legacy EXCEPT !.logout = @ + 1]
  /\ ev' = [NoEvent EXCEPT !.op = "matter.logout", !.step = "call",
                           !.sent = <<request_put(Str("/logout"), EmptyObj, tokenStr)>>,
                           !.st = "waiting", !.tok0 = legacy.item]
  /\ UNCHANGED <<tokenStr, userData, inflight>>

GetAuthToken ==
  /\ ev' = [NoEvent EXCEPT !.op = "matter.getAuthToken", !.step = "call",
                           !.st = "returned", !.val = getAuthToken(legacy.item),
                           !.tok0 = legacy.item]
  /\ UNCHANGED <<tokenStr, userData, inflight, legacy>>

LegacyLoginComplete ==
  \E out \in LegacyOutcomes(LegacyLoginBodies) :
    /\ legacy.login > 0
    /\ LET hr == handleResponse(out.err, out.res)
           eff == legacy_loginSettle(hr, legacy.item)
       IN /\ legacy' = [legacy EXCEPT !.login = @ - 1, !.item = eff.item]
          /\ ev' = [NoEvent EXCEPT !.op = "matter.login", !.step = "complete",
                                   !.st = eff.st, !.val = eff.val,
                                   !.err = out.err, !.res = out.res,
                                   !.rst = hr.st, !.rval = hr.val,
                                   !.tok0 = legacy.item]
    /\ UNCHANGED <<tokenStr, userData, inflight>>

LegacyLogoutComplete ==
  \E out \in LegacyOutcomes(LegacyLogoutBodies) :
    /\ legacy.logout > 0
    /\ LET hr == handleResponse(out.err, out.res)
           eff == legacy_logoutSettle(hr, legacy.item)
       IN /\ legacy' = [legacy EXCEPT !.logout = @ - 1, !.item = eff.item]
          /\ ev' = [NoEvent EXCEPT !.op = "matter.logout", !.step = "complete",
                                   !.st = eff.st, !.val = eff.val,
                                   !.err = out.err, !.res = out.res,
                                   !.rst = hr.st, !.rval = hr.val,
                                   !.tok0 = legacy.item]
    /\ UNCHANGED <<tokenStr, userData, inflight>>

NextLegacy ==
  \/ LegacyLogin \/ LegacyLogout \/ GetAuthToken
  \/ LegacyLoginComplete \/ LegacyLogoutComplete

SpecLegacy == Init /\ [][NextLegacy]_vars

TypeOK ==
  /\ tokenStr.t \in {"null", "string"}
  /\ \A x \in Tasks : inflight[x] \in 0..MaxInFlight
  /\ InFlightCount <= MaxInFlight

(***************************************************************************)
(* Properties                                                              *)
(***************************************************************************)
Completed(task) == ev.step = "complete" /\ ev.op = task
Called(op) == ev.step = "call" /\ ev.op = op
TransportFailed == ev.step = "complete" /\ Truthy(ev.err)
TransportSucceeded ==
  ev.step = "complete" /\ ~Truthy(ev.err) /\ ev.op \notin {"providerSignup", "providerLogin"}
FailedWith(n, asString) == TransportFailed /\ LooseEq(Get(ev.err, "status"), n, asString)
HasAuth(req) == "Authorization" \in DOMAIN req.headers

\* C1 (as stated): every request issued by get, post, put or del carries
\* Authorization: Bearer <token> if and only if the token held at the time
\* of the call is not null.
C1_HeaderIffTokenNotNull ==
  \A i \in 1..Len(ev.sent) :
    IF ev.tok0 # Null
    THEN HasAuth(ev.sent[i])
         /\ ev.sent[i].headers["Authorization"] = Str("Bearer " \o ev.tok0.s)
    ELSE ~HasAuth(ev.sent[i])

\* C1 (amended): every request issued by get, post, put or del carries
\* Authorization: Bearer <token> if and only if the token held at the time
\* of the call is a non-empty string; with a null or an empty token no
\* Authorization header is set.
C1_HeaderIffTokenNonEmpty ==
  \A i \in 1..Len(ev.sent) :
    IF ev.tok0 # Null /\ ev.tok0 # Str("")
    THEN HasAuth(ev.sent[i])
         /\ ev.sent[i].headers["Authorization"] = Str("Bearer " \o ev.tok0.s)
    ELSE ~HasAuth(ev.sent[i])

\* a del request issued with a token carries the header of that token
C1_Witness ==
  /\ Called("request.del") /\ ev.tok0 = Str("T1") /\ Len(ev.sent) = 1
  /\ ev.sent[1].headers = [Authorization |-> Str("Bearer T1")]

\* C2: once the network call of a logout has completed, by success or by
\* failure, no token is held and the cached account is null.
C2_LogoutAlwaysClears ==
  Completed("logout") => tokenStr = Null /\ currentUser(userData) = Null

\* C3: without a token, logout, updateAccount, uploadImage,
\* uploadAccountImage and changePassword reject without issuing a network
\* call and leave the token and the cached account as they were; the
\* rejection of logout carries status NULL_ACCOUNT.
C3_AnonymousCallsReject ==
  /\ ev.step = "call"
  /\ ev.op \in {"logout", "updateAccount", "uploadImage", "uploadAccountImage", "changePassword"}
  /\ ~Truthy(ev.tok0)
  => /\ ev.st = "rejected"
     /\ ev.sent = <<>>
     /\ tokenStr = ev.tok0
     /\ userData = ev.user0
     /\ ev.op = "logout" => Get(ev.val, "status") = Str("NULL_ACCOUNT")

\* logout was called on an anonymous session and rejected with NULL_ACCOUNT
C3_Witness ==
  /\ Called("logout") /\ ev.tok0 = Null /\ ev.st = "rejected"
  /\ Get(ev.val, "status") = Str("NULL_ACCOUNT")

\* C4: when a credential login resolves on a response body that contains a
\* token T and an account A, the Token Manager holds T, whatever it held
\* before, the login resolves with A and the cached account is A.
C4_LoginStoresTokenAndAccount ==
  Completed("login") /\ ev.st = "resolved" =>
    LET body == Get(ev.res, "body") IN
    /\ Has(body, "token") /\ Has(body, "account") =>
         /\ tokenStr = Get(body, "token")
         /\ ev.val = Get(body, "account")
         /\ currentUser(userData) = Get(body, "account")
    /\ body = LoginText =>
         /\ tokenStr = Str("T2")
         /\ ev.val = AcctV
         /\ currentUser(userData) = AcctV

\* a login resolved with token T1 and account u while another token was held
C4_Witness ==
  /\ Completed("login") /\ ev.st = "resolved"
  /\ Get(ev.res, "body") = Obj([token |-> Str("T1"), account |-> AcctU])
  /\ ev.tok0 = Str("T2") /\ tokenStr = Str("T1") /\ userData = AcctU

AuthenticatedTasks ==
  {"getCurrentUser", "updateAccount", "uploadImage", "changePassword", "logout"}

C6_CurrentUser401ResolvesNull ==
  Completed("getCurrentUser") /\ FailedWith(401, "401") /\ ev.rst = "rejected" =>
    ev.st = "resolved" /\ ev.val = Null /\ tokenStr = Null

\* C7: when the response of a credential login signals status 409, the
\* login is rejected with a value carrying the response body, and the token
\* and the cached account are left unchanged.
C7_Login409RejectsWithBody ==
  /\ Completed("login") /\ ev.rst = "resolved"
  /\ Has(ev.rval, "data") /\ Has(Get(ev.rval, "data"), "status")
  /\ LooseEq(Get(Get(ev.rval, "data"), "status"), 409, "409")
  => /\ ev.st = "rejected"
     /\ ev.val \in {ev.rval, Get(ev.rval, "data")}
     /\ tokenStr = ev.tok0
     /\ userData = ev.user0

\* C8: when the transport call of a credential login fails with status 409
\* or 400, the login is rejected with the text payload of the response.
C8_LoginConflictRejectsWithText ==
  Completed("login") /\ (FailedWith(409, "409") \/ FailedWith(400, "400")) =>
    ev.st = "rejected" /\ ev.val = Get(Get(ev.err, "response"), "text")

\* C9: on every transport failure the request promise is rejected: with
\* response.body.error when the failure response has a body containing an
\* error, otherwise with the raw transport error; the rejection value is
\* the message of that error when it has one, else the error itself.
C9_FailureAlwaysRejects ==
  TransportFailed =>
    LET response == Get(ev.err, "response")
        body == IF Nullish(response) THEN Undefined ELSE Get(response, "body")
        error == IF Has(body, "error") THEN Get(body, "error") ELSE ev.err
    IN /\ ev.rst = "rejected"
       /\ ev.rval = IF Truthy(Get(error, "message"))
                    THEN Get(error, "message") ELSE error

\* C10: on transport success the request promise resolves and never
\* rejects: with the parsed value when the body is JSON text, with the body
\* unchanged when parsing fails.
C10_SuccessAlwaysResolves ==
  TransportSucceeded =>
    LET body == Get(ev.res, "body") IN
    /\ ev.rst = "resolved"
    /\ IsText(body) /\ JSONParse(body).ok => ev.rval = JSONParse(body).val
    /\ ~JSONParse(body).ok => ev.rval = body
    /\ body = LoginText => ev.rval = Obj([token |-> Str("T2"), account |-> AcctV])
    /\ body = Text(<<W("ok")>>) => ev.rval = Text(<<W("ok")>>)

\* a JSON text body resolved with its parsed object
C10_Witness ==
  /\ TransportSucceeded /\ Get(ev.res, "body") = LoginText
  /\ ev.rst = "resolved" /\ ev.rval = Obj([token |-> Str("T2"), account |-> AcctV])

\* the verb of the transport request each Request Client operation is to issue
OwnVerb(op) ==
  CASE op = "request.get" -> "GET"
    [] op = "request.post" -> "POST"
    [] op = "request.put" -> "PUT"
    [] op = "request.del" -> "DELETE"

\* C11: each Request Client operation issues a transport request of its own
\* verb: get issues GET, post POST, put PUT and the delete operation DELETE.
C11_RequestOfOwnVerb ==
  ev.step = "call" /\ ev.op \in {"request.get", "request.post", "request.put", "request.del"} =>
    Len(ev.sent) = 1 /\ ev.sent[1].verb = OwnVerb(ev.op)

HasIdentifier(d) == Truthy(Get(d, "username")) \/ Truthy(Get(d, "email"))
HasPassword(d) == Truthy(Get(d, "password"))
RejectedWithStatus(status) == ev.st = "rejected" /\ Get(ev.val, "status") = Str(status)
Untouched == tokenStr = ev.tok0 /\ userData = ev.user0

\* C12: for object input to signup or login, a missing username and email
\* reject with ID_REQUIRED, otherwise a missing or empty password rejects
\* with PASS_REQUIRED, in both cases without a network call and without a
\* change of the token or the cached account; a network call is issued
\* only when an identifier and a non-empty password are both present.
C12_CredentialValidation ==
  ev.step = "call" /\ ev.op \in {"signup", "login"} =>
    /\ ev.arg.t = "object" /\ ~HasIdentifier(ev.arg) =>
         RejectedWithStatus("ID_REQUIRED") /\ ev.sent = <<>> /\ Untouched
    /\ ev.arg.t = "object" /\ HasIdentifier(ev.arg) /\ ~HasPassword(ev.arg) =>
         RejectedWithStatus("PASS_REQUIRED") /\ ev.sent = <<>> /\ Untouched
    /\ ev.arg.t = "object" /\ HasIdentifier(ev.arg) /\ HasPassword(ev.arg) =>
         Len(ev.sent) = 1 /\ ev.st = "waiting"
    /\ ev.sent # <<>> => HasIdentifier(ev.arg) /\ HasPassword(ev.arg)

\* a login with a username and an empty password was rejected with
\* PASS_REQUIRED and issued no request
C12_Witness ==
  /\ Called("login")
  /\ ev.arg = Obj([username |-> Str("u"), password |-> Str("")])
  /\ RejectedWithStatus("PASS_REQUIRED") /\ ev.sent = <<>>

\* C13 (as stated): for every input login fails validation exactly when
\* signup does and rejects with the same status token.
C13_LoginValidatesAsSignup ==
  Called("login") =>
    LET s == signup(ev.arg, ev.tok0, ev.user0) IN
    /\ (ev.st = "rejected") = (s.st = "rejected")
    /\ ev.st = "rejected" => Get(ev.val, "status") = Get(s.val, "status")

\* C13 (amended): for every input login fails validation exactly when
\* signup does; the status token is the same for a missing identifier
\* (ID_REQUIRED) and a missing password (PASS_REQUIRED), while for absent
\* input or input that is neither object nor string signup rejects with
\* NULL_DATA and login with DATA_REQUIRED.
C13_LoginValidatesAsSignupButDataRequired ==
  Called("login") =>
    LET s == signup(ev.arg, ev.tok0, ev.user0) IN
    /\ (ev.st = "rejected") = (s.st = "rejected")
    /\ ev.st = "rejected" =>
         IF Get(s.val, "status") = Str("NULL_DATA")
         THEN Get(ev.val, "status") = Str("DATA_REQUIRED")
              /\ (~Truthy(ev.arg) \/ (~isObject(ev.arg) /\ ~isString(ev.arg)))
         ELSE Get(ev.val, "status") = Get(s.val, "status")
              /\ Get(ev.val, "status") \in {Str("ID_REQUIRED"), Str("PASS_REQUIRED")}

\* a login without input was rejected with DATA_REQUIRED
C13_Witness ==
  Called("login") /\ ev.arg = Undefined /\ RejectedWithStatus("DATA_REQUIRED")

\* the legacy shape of the claims of token TL
LegacyAccount ==
  Obj([username |-> Str("lu"), name |-> Str("Legacy User"), authrocketId |-> Null])

\* C14: a credential login that resolves takes its account from the
\* response when the response has one, otherwise from the claims of the
\* current token (in the legacy shape when they carry the short-name field,
\* else as decoded), otherwise it is a record of the token string alone; the
\* token of the response is stored before the claims are read, and the
\* account the login resolves with is the one written to the cache.
C14_LoginAccountOrder ==
  Completed("login") /\ ev.st = "resolved" =>
    LET response == ev.rval
        current == IF Has(response, "token") THEN Get(response, "token") ELSE ev.tok0
        claims == TokenData(current)
    IN /\ tokenStr = current
       /\ userData = ev.val
       /\ IF Has(response, "account") THEN ev.val = Get(response, "account")
          ELSE IF Truthy(claims)
          THEN IF Truthy(Get(claims, "un"))
               THEN ev.val = Obj([username |-> Get(claims, "un"),
                                  name |-> Get(claims, "n"),
                                  authrocketId |-> Null])
               ELSE ev.val = claims
          ELSE ev.val = Obj([token |-> current])
       /\ response = Obj([token |-> Str("TL")]) => ev.val = LegacyAccount
       /\ response = Obj([token |-> Str("bad")]) => ev.val = Obj([token |-> Str("bad")])

\* a login resolved on a response with the legacy token and no account while
\* a token of the default shape was held, and the legacy account was cached
C14_Witness ==
  /\ Completed("login") /\ ev.st = "resolved"
  /\ ev.rval = Obj([token |-> Str("TL")]) /\ ev.tok0 = Str("T1")
  /\ ev.val = LegacyAccount /\ userData = LegacyAccount

\* what a call of getCurrentUser does in the state it is made in: the cached
\* account without a request, else null without a request when no token is
\* held, else one GET request
GetCurrentUserCall ==
  ev'.step = "call" /\ ev'.op = "getCurrentUser" =>
    IF Truthy(ev'.user0)
    THEN ev'.st = "resolved" /\ ev'.val = ev'.user0 /\ ev'.sent = <<>>
    ELSE IF ~Truthy(ev'.tok0)
    THEN ev'.st = "resolved" /\ ev'.val = Null /\ ev'.sent = <<>>
    ELSE ev'.st = "waiting" /\ Len(ev'.sent) = 1 /\ ev'.sent[1].verb = "GET"

\* the fetch of getCurrentUser has just succeeded and getCurrentUser is
\* called next
FetchedThenCalled ==
  /\ Completed("getCurrentUser") /\ ev.rst = "resolved"
  /\ ev'.step = "call" /\ ev'.op = "getCurrentUser"

\* C15 (as stated): getCurrentUser resolves with the cached account without
\* a request, else with null without a request when no token is held, else
\* issues one fetch; after a fetch that succeeded its result is cached and a
\* getCurrentUser that follows resolves with that result without a request.
C15_FetchOnceThenCached ==
  [][ /\ GetCurrentUserCall
      /\ FetchedThenCalled =>
           /\ ev.st = "resolved" /\ userData = ev.val
           /\ ev'.st = "resolved" /\ ev'.val = ev.val /\ ev'.sent = <<>> ]_vars

\* C15 (amended): as above when the fetch resolved with an account (a truthy
\* value); when it resolved with an empty result nothing is cached and a
\* getCurrentUser that follows issues the fetch again if a token is still
\* held.
C15_FetchOnceThenCachedIfAccount ==
  [][ /\ GetCurrentUserCall
      /\ FetchedThenCalled =>
           /\ ev.st = "resolved" /\ userData = ev.val
           /\ IF Truthy(ev.val)
              THEN ev'.st = "resolved" /\ ev'.val = ev.val /\ ev'.sent = <<>>
              ELSE /\ userData = Null
                   /\ Truthy(tokenStr) => ev'.st = "waiting" /\ Len(ev'.sent) = 1 ]_vars

\* a fetch of getCurrentUser made without a cached account has succeeded
\* with an account, which is now cached and is what a call made in this
\* state resolves with
C15_Witness ==
  /\ Completed("getCurrentUser") /\ ev.rst = "resolved"
  /\ ev.user0 = Null /\ Truthy(ev.val) /\ userData = ev.val
  /\ getCurrentUser(tokenStr, userData).st = "resolved"
  /\ getCurrentUser(tokenStr, userData).sent = <<>>

\* C16: uploadAccountImage issues the upload request alone; the update
\* request, with {image: {url: <upload result>}}, is issued only when the
\* upload has completed with success, so the two are never outstanding
\* together; when the upload fails no update is issued and the operation
\* rejects; when the update fails the operation rejects; when it succeeds
\* the operation resolves with the update's result.
C16_UploadThenUpdate ==
  /\ Called("uploadAccountImage") /\ ev.sent # <<>> =>
       /\ Len(ev.sent) = 1 /\ ev.sent[1].url = urls(ev.tok0).upload
       /\ ev.sent[1].body = ev.arg
  /\ Completed("uploadAccountImage.upload") =>
       /\ ev.sent # <<>> =>
            /\ TransportSucceeded /\ Len(ev.sent) = 1
            /\ ev.sent[1].url = urls(ev.tok0).update
            /\ ev.sent[1].body = Obj([image |-> Obj([url |-> ev.rval])])
            /\ ev.st = "waiting"
       /\ TransportFailed => ev.sent = <<>> /\ ev.st = "rejected"
  /\ Completed("uploadAccountImage.update") =>
       /\ ev.sent = <<>>
       /\ TransportFailed => ev.st = "rejected"
       /\ TransportSucceeded => ev.st = "resolved" /\ ev.val = ev.rval

\* the operations of the Session Facade
FacadeOps ==
  {"signup", "login", "logout", "getCurrentUser", "updateAccount", "uploadImage",
   "uploadAccountImage", "changePassword", "recoverAccount"}

\* C17: no call of a Session Facade operation throws, whatever the session
\* state, a token whose claims decode to null included: a call either
\* returns a promise that is settled at once or one that waits for the
\* network.
C17_NoSynchronousThrow ==
  ev.step = "call" /\ ev.op \in FacadeOps => ev.st \in {"resolved", "rejected", "waiting"}

\* the names of the groups in the claims of a token
GroupNames(tok) ==
  LET claims == TokenData(tok) IN
  IF Has(claims, "groups")
  THEN {Get(Get(claims, "groups").e[i], "name") : i \in DOMAIN Get(claims, "groups").e}
  ELSE {}

\* C18: on an anonymous session isInGroup returns false for every input; on
\* an authenticated session isInGroup(x) returns, for a single name, whether
\* some group of the claims has exactly that name; for a comma-joined
\* string, what isInGroups returns for the split segments, and true only if
\* every segment names a group of the claims; for an array, what isInGroups
\* returns for it; and false for any other shape.
C18_IsInGroup ==
  Called("isInGroup") =>
    LET x == ev.arg
        tok == ev.tok0
    IN /\ ev.st = "returned"
       /\ IF ~Truthy(tok) THEN ev.val = Bool(FALSE)
          ELSE IF isString(x) /\ Len(split(x.s)) = 1
          THEN ev.val = Bool(x \in GroupNames(tok))
          ELSE IF isString(x)
          THEN /\ ev.val = isInGroups(Arr(split(x.s)), tok)
               /\ ev.val = Bool(TRUE) =>
                    \A i \in DOMAIN split(x.s) : split(x.s)[i] \in GroupNames(tok)
          ELSE IF isArray(x) THEN ev.val = isInGroups(x, tok)
          ELSE ev.val = Bool(FALSE)

\* an element of a list of groups that evaluates true under isInGroup
ElementInGroup(group, tok) ==
  IF isString(group) THEN isInGroup(group, tok) = Bool(TRUE)
  ELSE Has(group, "name") /\ isInGroup(Get(group, "name"), tok) = Bool(TRUE)

\* C19: on an anonymous session isInGroups returns false for every input;
\* on an authenticated session whose token carries claims isInGroups(list)
\* returns true iff every element of the list evaluates true under isInGroup,
\* an element being a name or an object whose name is checked, an object
\* without name counting as false; isInGroups([]) returns true, and
\* isInGroups(['admins']) returns true when the claims have a group admins.
C19_IsInGroups ==
  Called("isInGroups") =>
    LET x == ev.arg
        tok == ev.tok0
    IN IF ~Truthy(tok) THEN ev.st = "returned" /\ ev.val = Bool(FALSE)
       ELSE isArray(x) /\ Truthy(TokenData(tok)) =>
              /\ ev.st = "returned"
              /\ ev.val = Bool(\A i \in DOMAIN x.e : ElementInGroup(x.e[i], tok))
              /\ x = Arr(<<>>) => ev.val = Bool(TRUE)
              /\ x = Arr(<<Str("admins")>>) /\ Str("admins") \in GroupNames(tok) =>
                   ev.val = Bool(TRUE)

\* C20: the cached account changes only when a login, an updateAccount or
\* the fetch of getCurrentUser completes with success, or when a logout
\* completes; no call, no failed completion and no completion of signup,
\* uploadImage, changePassword, recoverAccount or a group check changes it.
C20_AccountWrittenOnlyByLoginUpdateFetch ==
  userData # ev.user0 =>
    \/ /\ ev.step = "complete" /\ ev.rst = "resolved" /\ ev.st = "resolved"
       /\ ev.op \in {"login", "updateAccount", "uploadAccountImage.update", "getCurrentUser"}
    \/ Completed("logout")

\* a login has just resolved on a response that carries a token
LoginStoredToken ==
  Completed("login") /\ ev.st = "resolved" /\ Has(ev.rval, "token")

\* C21: when two logins are outstanding together and both succeed with
\* tokens, the token held after the second completion is the token of the
\* response processed second, whichever of the two that is; it is neither
\* absent nor any other value.
C21_LastLoginWins ==
  [][ /\ LoginStoredToken /\ inflight["login"] >= 1
      /\ LoginStoredToken'
      => /\ tokenStr' = Get(ev'.rval, "token")
         /\ ev'.tok0 = Get(ev.rval, "token") ]_vars

\* two logins were outstanding together; the one that got token T1 has been
\* processed, T1 is held, and the other one is still outstanding
C21_Witness ==
  /\ LoginStoredToken /\ Get(ev.rval, "token") = Str("T1")
  /\ ev.tok0 = Str("T2") /\ tokenStr = Str("T1")
  /\ inflight["login"] = 1

\* a credential signup has just resolved on a response that carries a token
SignupGotToken ==
  Completed("signup") /\ ev.rst = "resolved" /\ Has(ev.rval, "token")

\* C22 (as stated): after a credential signup has succeeded on a response
\* that carries a token, the Token Manager holds that token and the session
\* is authenticated.
C22_SignupStoresToken ==
  SignupGotToken => tokenStr = Get(ev.rval, "token") /\ isLoggedIn(tokenStr)

\* C22 (amended): a credential signup that succeeds on a response that
\* carries a token leaves the token and the cached account as they were
\* before; it resolves with the account of the response when it has one and
\* with the response otherwise.
C22_SignupKeepsToken ==
  SignupGotToken =>
    /\ tokenStr = ev.tok0 /\ userData = ev.user0
    /\ ev.st = "resolved"
    /\ ev.val = IF Has(ev.rval, "account") THEN Get(ev.rval, "account") ELSE ev.rval

\* a signup made without a token resolved on a response with token T1 and
\* an account: the session is still anonymous
C22_Witness ==
  /\ SignupGotToken /\ Get(ev.rval, "token") = Str("T1")
  /\ ev.tok0 = Null /\ tokenStr = Null /\ ev.val = AcctU

\* C23: in the Matter class of matter.js every login that resolves on a
\* response carrying a token leaves that token as what getAuthToken()
\* returns, whether or not a token was stored before and whether or not a
\* logout went before; after a logout that resolved getAuthToken() returns
\* null.
C23_LegacyLoginStoresToken ==
  /\ Completed("matter.login") /\ ev.st = "resolved" /\ Has(ev.val, "token") =>
       getAuthToken(legacy.item) = Get(ev.val, "token")
  /\ Completed("matter.logout") /\ ev.st = "resolved" =>
       getAuthToken(legacy.item) = Null

\* C24: every call of isInGroup and of isInGroups returns a boolean and
\* never throws, for every input and every session state, the state where a
\* token is held whose claims are null included.
C24_GroupChecksTotal ==
  ev.step = "call" /\ ev.op \in {"isInGroup", "isInGroups"} =>
    ev.st = "returned" /\ ev.val \in {Bool(TRUE), Bool(FALSE)}

\* C25: in every reachable state a cached account implies that a token is
\* held, and a getCurrentUser called while no token is held resolves with
\* null.
C25_AccountImpliesToken ==
  /\ Truthy(currentUser(userData)) => isLoggedIn(tokenStr)
  /\ Called("getCurrentUser") /\ ~isLoggedIn(ev.tok0) =>
       ev.st = "resolved" /\ ev.val = Null

\* C26: a credential login that ends in a rejection, at the validation of
\* its input, after a transport failure or on a response that signals 409,
\* leaves the token and the cached account as they were before the step.
C26_RejectedLoginChangesNothing ==
  ev.op = "login" /\ ev.st = "rejected" =>
    tokenStr = ev.tok0 /\ userData = ev.user0

\* a login made while token T1 and an account were held was rejected on a
\* response that signals 409, and both are still held
C26_Witness ==
  /\ Completed("login") /\ ev.st = "rejected"
  /\ ev.rval = Obj([data |-> Obj([status |-> Num(409)])])
  /\ ev.tok0 = Str("T1") /\ tokenStr = Str("T1")
  /\ Truthy(ev.user0) /\ userData = ev.user0

====
